---- MODULE Spec2Model ----
(***************************************************************************)
(* kosync-rs: the user, progress and annotation stores of                  *)
(* server/src/db.rs, the handlers of server/src/handlers.rs in front of    *)
(* them, and the error responses of server/src/error.rs.                   *)
(*                                                                         *)
(* Strings are sequences of character codes, so that the comparison of two *)
(* timestamps is the byte-wise lexicographic comparison Rust's `str`       *)
(* implements.  Option<T> is a sequence of length 0 (None) or 1 (Some).    *)
(* A stored Vec<Annotation> is written from HashMap::into_values, whose    *)
(* order is arbitrary: the stored collection is kept as a set and the      *)
(* order in which a transaction iterates it is drawn when it is read.      *)
(***************************************************************************)
EXTENDS Integers, Sequences, FiniteSets, TLC

VARIABLES
    ANNOTATIONS,  \* the "annotations" table: key -> None or Some(stored JSON)
    writer,       \* the process holding redb's single write transaction, or None
    proc,         \* per request task: its position in update_annotations and its locals
    now,          \* the server clock (SystemTime::now, seconds)
    committed,    \* history: per key, the number of update_annotations that committed
    last,         \* history: per key, the record the last commit wrote, or None
    PROGRESS,     \* the "progress" table: key -> None or Some(stored JSON)
    ptask,        \* per progress request task: its position in set_progress and its locals
    plast,        \* history: per key, the Progress the last set_progress commit wrote, or None
    USERS,        \* the "users" table: username -> None or Some(password hash)
    http          \* per handler task: the HTTP request it serves and how far it got

vars == <<ANNOTATIONS, writer, proc, now, committed, last, PROGRESS, ptask, plast, USERS, http>>

None == <<>>
Some(x) == <<x>>
Contains(seq, x) == \E i \in DOMAIN seq : seq[i] = x
Range(seq) == {seq[i] : i \in DOMAIN seq}

(***************************************************************************)
(* Bounds of the model.                                                    *)
(***************************************************************************)
MaxVersion == 2   \* calls start only while the stored version is below it
MaxClock == 2     \* the clock stops ticking there
MaxAnnLen == 2    \* annotations per request
MaxDelLen == 2    \* deleted entries per request

\* Timestamps as strings: "10" < "2" byte-wise although 10 > 2 as numbers.
T10 == <<1, 0>>
T2 == <<2>>
Times == {T10, T2}

\* Identity triples (page, pos0, pos1): same page, different pos0.
Triples == {<<1, None, None>>, <<1, Some(5), None>>}

\* models.rs Annotation: the fields the merge reads.  The free-form fields
\* (drawer, color, text, note, chapter, pageno) are never read and travel with
\* the record.  An update time, when present, differs from the creation time:
\* ("10", -) and ("2", "10") tie, ("2", -) is later than both, and ("2", "10")
\* was updated "before" it was created.
Annotations ==
    {a \in {[datetime |-> d, datetime_updated |-> u,
             page |-> t[1], pos0 |-> t[2], pos1 |-> t[3]] :
                d \in Times, u \in {None, Some(T10)}, t \in Triples} :
        a.datetime_updated # Some(a.datetime)}

Procs == {"p1", "p2"}
User == <<"u">>
Docs == {<<"d1">>}

\* Mutant: the key does not tell the documents of a user apart.
annotations_key_of_user(username, document) == username \o <<":">>

\* Database::annotations_key: format!("{}:{}", username, document)
annotations_key(username, document) == username \o <<":">> \o document

Keys == {annotations_key(User, d) : d \in Docs}

\* Mutant: the default record counts as a first version.
DefaultDocVersionOne ==
    [version |-> 1, annotations |-> {}, deleted |-> <<>>, updated_at |-> 0]

\* DocumentAnnotations::default()
DefaultDoc == [version |-> 0, annotations |-> {}, deleted |-> <<>>, updated_at |-> 0]

(***************************************************************************)
(* serde_json: a stored value is the JSON object of the record.  A field   *)
(* marked skip_serializing_if = "Option::is_none" is left out when None    *)
(* and reads back as None when missing.                                    *)
(***************************************************************************)
Field(name, opt) == IF opt = None THEN <<>> ELSE name :> opt[1]
Optional(obj, name) == IF name \in DOMAIN obj THEN Some(obj[name]) ELSE None

\* #[derive(Serialize)] for Annotation
annotation_to_json(a) ==
    [datetime |-> a.datetime, page |-> a.page]
        @@ Field("datetime_updated", a.datetime_updated)
        @@ Field("pos0", a.pos0) @@ Field("pos1", a.pos1)

\* #[derive(Deserialize)] for Annotation
annotation_from_json(obj) ==
    [datetime |-> obj.datetime,
     datetime_updated |-> Optional(obj, "datetime_updated"),
     page |-> obj.page,
     pos0 |-> Optional(obj, "pos0"),
     pos1 |-> Optional(obj, "pos1")]

\* serde_json::to_vec(&new_doc)
to_vec(doc) ==
    [version |-> doc.version,
     annotations |-> {annotation_to_json(a) : a \in doc.annotations},
     deleted |-> doc.deleted,
     updated_at |-> doc.updated_at]

\* serde_json::from_slice(data.value()) as DocumentAnnotations
from_slice(data) ==
    [version |-> data.version,
     annotations |-> {annotation_from_json(obj) : obj \in data.annotations},
     deleted |-> IF "deleted" \in DOMAIN data THEN data.deleted ELSE <<>>,
     updated_at |-> data.updated_at]

(***************************************************************************)
(* merge_annotations and its helpers.                                      *)
(***************************************************************************)
\* `a > b` on &str
RECURSIVE StrGt(_, _)
StrGt(a, b) ==
    IF a = <<>> THEN FALSE
    ELSE IF b = <<>> THEN TRUE
    ELSE IF a[1] # b[1] THEN a[1] > b[1]
    ELSE StrGt(Tail(a), Tail(b))

\* Mutant: the creation time is part of the key.
position_key_with_datetime(a) == <<a.page, a.pos0, a.pos1, a.datetime>>

\* format!("{}|{:?}|{:?}", to_string(&a.page), a.pos0, a.pos1)
position_key(a) == <<a.page, a.pos0, a.pos1>>

\* Mutant: the later of the creation time and the update time.
effective_time_latest(a) ==
    IF a.datetime_updated # None /\ StrGt(a.datetime_updated[1], a.datetime)
    THEN a.datetime_updated[1] ELSE a.datetime

\* a.datetime_updated.as_deref().unwrap_or(&a.datetime)
effective_time(a) ==
    IF a.datetime_updated # None THEN a.datetime_updated[1] ELSE a.datetime

\* HashMap::new / insert / into_values
EmptyMap == [k \in {} |-> None]
Insert(m, k, v) == [x \in DOMAIN m \cup {k} |-> IF x = k THEN v ELSE m[x]]
Values(m) == {m[k] : k \in DOMAIN m}

\* Mutants of the tombstone tests: the effective time is looked up instead of
\* the creation time.
DeletedByClientEffective(client_deleted, anno) ==
    Contains(client_deleted, effective_time(anno))

DeletedOnServerEffective(server_deleted, anno) ==
    Contains(server_deleted, effective_time(anno))

\* client_deleted.contains(&anno.datetime)
DeletedByClient(client_deleted, anno) == Contains(client_deleted, anno.datetime)

\* server_deleted.contains(&anno.datetime)
DeletedOnServer(server_deleted, anno) == Contains(server_deleted, anno.datetime)

\* for anno in server { if !client_deleted.contains(&anno.datetime) { insert } }
RECURSIVE ServerLoop(_, _, _)
ServerLoop(merged, server, client_deleted) ==
    IF server = <<>> THEN merged
    ELSE LET anno == Head(server)
             next == IF ~DeletedByClient(client_deleted, anno)
                     THEN Insert(merged, position_key(anno), anno)
                     ELSE merged
         IN ServerLoop(next, Tail(server), client_deleted)

\* Mutant of the recency test: the annotation submitted last wins.
NewerAlways(anno, existing) == TRUE

\* Mutants of the recency test: the older one wins; a tie replaces.
NewerReversed(anno, existing) == StrGt(effective_time(existing), effective_time(anno))

NewerOrEqual(anno, existing) == ~StrGt(effective_time(existing), effective_time(anno))

\* if effective_time(&anno) > effective_time(existing)
Newer(anno, existing) == StrGt(effective_time(anno), effective_time(existing))

\* for anno in client { skip if deleted on server; keep newer one; else insert }
RECURSIVE ClientLoop(_, _, _)
ClientLoop(merged, client, server_deleted) ==
    IF client = <<>> THEN merged
    ELSE LET anno == Head(client)
             key == position_key(anno)
             next == IF DeletedOnServer(server_deleted, anno) THEN merged
                     ELSE IF key \in DOMAIN merged
                          THEN IF Newer(anno, merged[key])
                               THEN Insert(merged, key, anno)
                               ELSE merged
                          ELSE Insert(merged, key, anno)
         IN ClientLoop(next, Tail(client), server_deleted)

\* Mutant: the submitted annotations replace the stored ones.
merge_annotations_replace(server, client, server_deleted, client_deleted) ==
    Range(client)

merge_annotations(server, client, server_deleted, client_deleted) ==
    Values(ClientLoop(ServerLoop(EmptyMap, server, client_deleted),
                      client, server_deleted))

\* Mutant: the incoming list is appended without the membership test.
MergeDeletedAppend(all_deleted, new_deleted) == all_deleted \o new_deleted

\* for d in new_deleted { if !all_deleted.contains(&d) { all_deleted.push(d) } }
RECURSIVE MergeDeleted(_, _)
MergeDeleted(all_deleted, new_deleted) ==
    IF new_deleted = <<>> THEN all_deleted
    ELSE MergeDeleted(IF ~Contains(all_deleted, Head(new_deleted))
                      THEN Append(all_deleted, Head(new_deleted))
                      ELSE all_deleted,
                      Tail(new_deleted))

\* Mutants of the version check: only an older base is refused; the bootstrap
\* exemption is dropped.
VersionConflictOlderOnly(base_version, current) ==
    /\ base_version # None
    /\ base_version[1] < current.version
    /\ current.version > 0

VersionConflictNoBootstrap(base_version, current) ==
    /\ base_version # None
    /\ base_version[1] # current.version

\* Mutant: `||` for `&&`: a record that has a version refuses every base.
VersionConflictOr(base_version, current) ==
    IF base_version = None THEN FALSE
    ELSE IF base_version[1] # current.version THEN TRUE
    ELSE current.version > 0

\* Mutant: a request without a base version is checked against version 0.
VersionConflictMissingBase(base_version, current) ==
    IF base_version = None THEN current.version > 0
    ELSE base_version[1] # current.version /\ current.version > 0

\* if let Some(base) = base_version { if base != current.version && current.version > 0 {..} }
VersionConflict(base_version, current) ==
    /\ base_version # None
    /\ base_version[1] # current.version
    /\ current.version > 0

\* Mutant: the version is copied, not incremented.
NewDocSameVersion(current, merged, all_deleted, timestamp) ==
    [version |-> current.version, annotations |-> merged,
     deleted |-> all_deleted, updated_at |-> timestamp]

\* let new_doc = DocumentAnnotations { version: current.version + 1, .. }
NewDoc(current, merged, all_deleted, timestamp) ==
    [version |-> current.version + 1, annotations |-> merged,
     deleted |-> all_deleted, updated_at |-> timestamp]

\* serde_json::from_slice succeeds: the fields without a serde default are there
Decodable(data) ==
    /\ {"version", "annotations", "updated_at"} \subseteq DOMAIN data
    /\ \A obj \in data.annotations : {"datetime", "page"} \subseteq DOMAIN obj

\* the value under the key, if any, decodes
Decodes(table, key) == IF table[key] = None THEN TRUE ELSE Decodable(table[key][1])

\* A stored value of another schema: it has no `annotations` and no `updated_at`.
Corrupt == [version |-> 1]

\* match table.get(key)? { Some(data) => from_slice(data), None => default() }
Current(table, key) ==
    IF table[key] = None THEN DefaultDoc ELSE from_slice(table[key][1])

\* Mutant: write transactions are not serialized.
CanBeginWriteAlways(w) == TRUE

\* begin_write hands out the single write transaction
CanBeginWrite(w) == w = None

\* Mutant: a write transaction that is dropped stays open.
AbortKeeps(holder) == holder

\* A WriteTransaction dropped without commit (an early return, a `?`) is
\* aborted: its writes are discarded and the next begin_write may proceed.
Abort(holder) == None

\* Mutant: an insert is visible at once, transaction or not.
InsertedAtOnce(table, key, value) == [table EXCEPT ![key] = Some(value)]

\* table.insert inside a write transaction: the committed table, the one every
\* other transaction sees, keeps its value until commit
InsertedInTxn(table, key, value) == table

\* Mutant: a read sees what the open write transaction has inserted.
ReadViewDirty(table, tasks) ==
    [k \in DOMAIN table |->
        IF \E p \in DOMAIN tasks : tasks[p].pc = "commit" /\ tasks[p].key = k
        THEN LET p == CHOOSE p \in DOMAIN tasks : tasks[p].pc = "commit" /\ tasks[p].key = k
             IN Some(to_vec(tasks[p].new_doc[1]))
        ELSE table[k]]

\* begin_read: a snapshot of the last committed state; what the tasks holding
\* the write transaction have inserted is not part of it
ReadView(table, tasks) == table

\* The orders in which a stored collection may be iterated.
Orders(S) == {s \in [1..Cardinality(S) -> S] : Range(s) = S}

(***************************************************************************)
(* Requests.                                                               *)
(***************************************************************************)
SeqsUpTo(S, n) == UNION {[1..k -> S] : k \in 0..n}

BaseVersions == {None} \cup {Some(v) : v \in 0..MaxVersion}

\* Every request body within the bounds.
Payloads ==
    [annotations : SeqsUpTo(Annotations, MaxAnnLen),
     deleted : SeqsUpTo(Times, MaxDelLen)]

A1 == [datetime |-> T10, datetime_updated |-> None, page |-> 1, pos0 |-> None, pos1 |-> None]
A2 == [datetime |-> T2, datetime_updated |-> None, page |-> 1, pos0 |-> Some(5), pos1 |-> None]

\* The request bodies the concurrent clients send.
SmallPayloads ==
    {[annotations |-> <<A1>>, deleted |-> <<>>],
     [annotations |-> <<A2>>, deleted |-> <<T10>>]}

(***************************************************************************)
(* The progress store.                                                     *)
(***************************************************************************)
AllDocs == {<<"d1">>, <<"d2">>}

\* Database::progress_key: format!("{}:{}", username, document)
progress_key(username, document) == username \o <<":">> \o document

\* Progress::default(): every field None
ProgressDefault ==
    [document |-> None, progress |-> None, percentage |-> None,
     device |-> None, device_id |-> None, timestamp |-> None]

\* #[derive(Serialize)] for Progress: every field is skipped when None
progress_to_json(data) ==
    Field("document", data.document) @@ Field("progress", data.progress)
        @@ Field("percentage", data.percentage) @@ Field("device", data.device)
        @@ Field("device_id", data.device_id) @@ Field("timestamp", data.timestamp)

\* #[derive(Deserialize)] for Progress
progress_from_json(obj) ==
    [document |-> Optional(obj, "document"),
     progress |-> Optional(obj, "progress"),
     percentage |-> Optional(obj, "percentage"),
     device |-> Optional(obj, "device"),
     device_id |-> Optional(obj, "device_id"),
     timestamp |-> Optional(obj, "timestamp")]

\* let data = Progress { document: Some(..), .., device_id: device_id.map(..), .. }
NewProgress(document, progress, percentage, device, device_id, timestamp) ==
    [document |-> Some(document), progress |-> Some(progress),
     percentage |-> Some(percentage), device |-> Some(device),
     device_id |-> device_id, timestamp |-> Some(timestamp)]

\* Mutant: the fields the new value lacks are kept from the stored value.
TableInsertMerge(table, key, value) ==
    [table EXCEPT ![key] = IF @ = None THEN Some(value) ELSE Some(value @@ @[1])]

\* table.insert(key, value): the value under the key is replaced
TableInsert(table, key, value) == [table EXCEPT ![key] = Some(value)]

\* match table.get(key)? { Some(data) => from_slice(data), None => Progress::default() }
CurrentProgress(table, key) ==
    IF table[key] = None THEN ProgressDefault ELSE progress_from_json(table[key][1])

\* The bodies of PUT /syncs/progress the clients send: device_id is optional.
ProgressPayloads ==
    {[progress |-> <<"x", "1">>, percentage |-> 10, device |-> <<"A">>,
      device_id |-> Some(<<"i", "d">>)],
     [progress |-> <<"x", "2">>, percentage |-> 25, device |-> <<"B">>,
      device_id |-> None]}

\* no result yet
NoResult == [kind |-> "none", version |-> 0, timestamp |-> 0]

IdleTask ==
    [pc |-> "idle", key |-> None, data |-> None, json |-> None,
     res |-> NoResult, got |-> None]

(***************************************************************************)
(* HTTP requests.  The header and path values a client may send: a valid   *)
(* name, a second one, the empty string, and one that holds the separator. *)
(***************************************************************************)
UserNames == {<<>>, <<"a">>, <<"b">>, <<"a", ":", "b">>}
DocNames == {<<>>, <<"d">>, <<"b", ":", "d">>}
Secrets == {<<>>, <<"k1">>, <<"k2">>}

\* lib.rs create_router: the routes that reach the store
Routes ==
    {"create_user", "auth_user", "get_progress", "update_progress",
     "get_annotations", "update_annotations"}

\* A handler task with no request: `user` and `secret` are the x-auth-user and
\* x-auth-key headers (or the body of /users/create), `document` the path or
\* body field, `username` the result of authorize, `calls` the store
\* operations the handler has made, `res` and `got` what it answers.
IdleRequest ==
    [pc |-> "idle", route |-> "none", user |-> None, secret |-> None,
     document |-> None, username |-> None, calls |-> <<>>,
     res |-> "none", got |-> None]

(***************************************************************************)
(* The state machine.  A request task runs update_annotations in four      *)
(* steps: Call (the timestamp is taken before the transaction), then       *)
(* TxnMerge or TxnConflict (begin_write and the body of the transaction:   *)
(* redb admits one write transaction at a time and keeps its writes        *)
(* private, so acquiring it and running the body is one step), Commit, and *)
(* Return.  `current` and `new_doc` are the locals of the call; they and   *)
(* the result stay readable in proc until Return.                          *)
(***************************************************************************)
Idle ==
    [pc |-> "idle", document |-> None, key |-> None, base_version |-> None,
     new_annotations |-> <<>>, new_deleted |-> <<>>, timestamp |-> 0,
     current |-> None, new_doc |-> None, res |-> NoResult, view |-> None, nth |-> 0]

InitOn(keys) ==
    /\ ANNOTATIONS = [k \in keys |-> None]
    /\ writer = None
    /\ proc = [p \in Procs |-> Idle]
    /\ now = 1
    /\ committed = [k \in keys |-> 0]
    /\ last = [k \in keys |-> None]
    /\ PROGRESS = [k \in keys |-> None]
    /\ ptask = [p \in Procs |-> IdleTask]
    /\ plast = [k \in keys |-> None]
    /\ USERS = [u \in UserNames |-> None]
    /\ http = [h \in Procs |-> IdleRequest]

Init == InitOn(Keys)

Tick ==
    /\ now < MaxClock
    /\ now' = now + 1
    /\ UNCHANGED <<ANNOTATIONS, writer, proc, committed, last, PROGRESS, ptask, plast, USERS, http>>

\* Database::get_annotations: a snapshot read of the committed table
GetAnnotations(p) ==
    /\ proc[p].pc = "idle"
    /\ \E key \in DOMAIN ANNOTATIONS :
          /\ Decodes(ReadView(ANNOTATIONS, proc), key)
          /\ proc' = [proc EXCEPT ![p].view =
                       Some([key |-> key,
                             doc |-> Current(ReadView(ANNOTATIONS, proc), key)])]
    /\ UNCHANGED <<ANNOTATIONS, writer, now, committed, last, PROGRESS, ptask, plast, USERS, http>>

\* update_annotations, lines 161-165: the arguments and the timestamp
Call(p, payloads, base_versions) ==
    /\ proc[p].pc = "idle"
    /\ \E document \in AllDocs :
          LET key == annotations_key(User, document)
          IN /\ key \in DOMAIN ANNOTATIONS
             /\ Decodes(ANNOTATIONS, key) => Current(ANNOTATIONS, key).version < MaxVersion
             /\ \E payload \in payloads, base_version \in base_versions :
                proc' = [proc EXCEPT ![p] =
                          [@ EXCEPT !.pc = "called", !.document = Some(document),
                                    !.key = key,
                                    !.base_version = base_version,
                                    !.new_annotations = payload.annotations,
                                    !.new_deleted = payload.deleted,
                                    !.timestamp = now]]
    /\ UNCHANGED <<ANNOTATIONS, writer, now, committed, last, PROGRESS, ptask, plast, USERS, http>>

\* lines 167-182: begin_write, read the current record, version check failed:
\* the early return drops the write transaction, which aborts it
TxnConflict(p) ==
    /\ proc[p].pc = "called"
    /\ CanBeginWrite(writer)
    /\ Decodes(ANNOTATIONS, proc[p].key)
    /\ LET current == Current(ANNOTATIONS, proc[p].key)
       IN /\ VersionConflict(proc[p].base_version, current)
          /\ proc' = [proc EXCEPT ![p] =
                       [@ EXCEPT !.pc = "done", !.current = Some(current),
                                 !.res = [kind |-> "conflict", version |-> 0, timestamp |-> 0]]]
    /\ writer' = Abort(Some(p))
    /\ UNCHANGED <<ANNOTATIONS, now, committed, last, PROGRESS, ptask, plast, USERS, http>>

\* lines 167-211: begin_write, read, check, merge, insert into the open transaction
TxnMerge(p) ==
    /\ proc[p].pc = "called"
    /\ CanBeginWrite(writer)
    /\ Decodes(ANNOTATIONS, proc[p].key)
    /\ LET current == Current(ANNOTATIONS, proc[p].key)
       IN /\ ~VersionConflict(proc[p].base_version, current)
          /\ \E server \in Orders(current.annotations) :
                LET merged == merge_annotations(server, proc[p].new_annotations,
                                                current.deleted, proc[p].new_deleted)
                    all_deleted == MergeDeleted(current.deleted, proc[p].new_deleted)
                    new_doc == NewDoc(current, merged, all_deleted, proc[p].timestamp)
                IN /\ proc' = [proc EXCEPT ![p] =
                                [@ EXCEPT !.pc = "commit", !.current = Some(current),
                                          !.new_doc = Some(new_doc)]]
                   /\ ANNOTATIONS' = InsertedInTxn(ANNOTATIONS, proc[p].key, to_vec(new_doc))
    /\ writer' = Some(p)
    /\ UNCHANGED <<now, committed, last, PROGRESS, ptask, plast, USERS, http>>

\* line 212: write_txn.commit()
Commit(p) ==
    /\ proc[p].pc = "commit"
    /\ LET key == proc[p].key
           new_doc == proc[p].new_doc[1]
       IN /\ ANNOTATIONS' = [ANNOTATIONS EXCEPT ![key] = Some(to_vec(new_doc))]
          /\ committed' = [committed EXCEPT ![key] = @ + 1]
          /\ last' = [last EXCEPT ![key] = Some(new_doc)]
          /\ proc' = [proc EXCEPT ![p] =
                       [@ EXCEPT !.pc = "done", !.nth = committed[key] + 1,
                                 !.res = [kind |-> "ok", version |-> new_doc.version,
                                          timestamp |-> proc[p].timestamp]]]
    /\ writer' = None
    /\ UNCHANGED <<now, PROGRESS, ptask, plast, USERS, http>>

\* line 214 (or the error return): the call is over, its locals are gone
Return(p) ==
    /\ proc[p].pc = "done"
    /\ proc' = [proc EXCEPT ![p] = Idle]
    /\ UNCHANGED <<ANNOTATIONS, writer, now, committed, last, PROGRESS, ptask, plast, USERS, http>>

Next ==
    \/ Tick
    \/ \E p \in Procs : GetAnnotations(p)
    \/ \E p \in Procs : Call(p, SmallPayloads, BaseVersions)
    \/ \E p \in Procs : TxnConflict(p)
    \/ \E p \in Procs : TxnMerge(p)
    \/ \E p \in Procs : Commit(p)
    \/ \E p \in Procs : Return(p)

Spec == Init /\ [][Next]_vars

(***************************************************************************)
(* One client at a time, every request body within the bounds: the merge.  *)
(***************************************************************************)
NextMerge ==
    \/ Call("p1", Payloads, {None})
    \/ TxnMerge("p1")
    \/ Commit("p1")
    \/ Return("p1")

SpecMerge == Init /\ [][NextMerge]_vars

(***************************************************************************)
(* error.rs: what the caller of a failed operation receives.  A result     *)
(* kind is the name of the AppError variant ("conflict" is                 *)
(* VersionConflict).                                                       *)
(***************************************************************************)
\* the variants that wrap a redb error
StorageKinds == {"Database", "DatabaseError", "Transaction", "Table", "Storage", "Commit"}

\* AppError::status_code
status_code(kind) ==
    CASE kind = "Unauthorized" -> 401
      [] kind = "UserExists" -> 402
      [] kind = "InvalidRequest" -> 403
      [] kind = "DocumentMissing" -> 403
      [] kind = "conflict" -> 409
      [] OTHER -> 500

\* AppError::error_code
error_code(kind) ==
    CASE kind \in StorageKinds \cup {"Serialization"} -> 2000
      [] kind = "Unauthorized" -> 2001
      [] kind = "UserExists" -> 2002
      [] kind = "InvalidRequest" -> 2003
      [] kind = "DocumentMissing" -> 2004
      [] kind = "conflict" -> 2005

\* impl IntoResponse for AppError: the status and the `code` of the JSON body
into_response(kind) == [status |-> status_code(kind), code |-> error_code(kind)]

(***************************************************************************)
(* Faults.  The database file outlives the process (Database::open opens   *)
(* an existing file), so a record may have been stored under another       *)
(* schema; and every redb call of a transaction may fail.  serde_json      *)
(* encodes every DocumentAnnotations and Progress value, so to_vec does    *)
(* not fail.                                                               *)
(***************************************************************************)
InitFault ==
    /\ ANNOTATIONS \in [Keys -> {None, Some(Corrupt)}]
    /\ writer = None
    /\ proc = [p \in Procs |-> Idle]
    /\ now = 1
    /\ committed = [k \in Keys |-> 0]
    /\ last = [k \in Keys |-> None]
    /\ PROGRESS = [k \in Keys |-> None]
    /\ ptask = [p \in Procs |-> IdleTask]
    /\ plast = [k \in Keys |-> None]
    /\ USERS = [u \in UserNames |-> None]
    /\ http = [h \in Procs |-> IdleRequest]

\* The `?` of lines 167 (begin_write), 169 (open_table), 172 (get), 173
\* (from_slice) and 208 (insert): the error returns, the transaction is dropped
TxnFault(p) ==
    /\ proc[p].pc = "called"
    /\ CanBeginWrite(writer)
    /\ \E kind \in {"Transaction", "Table", "Storage", "Serialization"} :
          /\ kind = "Serialization" => ~Decodes(ANNOTATIONS, proc[p].key)
          /\ proc' = [proc EXCEPT ![p] =
                       [@ EXCEPT !.pc = "done",
                                 !.res = [kind |-> kind, version |-> 0, timestamp |-> 0]]]
          /\ writer' = IF kind = "Transaction" THEN writer ELSE Abort(Some(p))
    /\ UNCHANGED <<ANNOTATIONS, now, committed, last, PROGRESS, ptask, plast, USERS, http>>

\* line 212: write_txn.commit()? fails, nothing of the transaction is stored
CommitFault(p) ==
    /\ proc[p].pc = "commit"
    /\ proc' = [proc EXCEPT ![p] =
                 [@ EXCEPT !.pc = "done",
                           !.res = [kind |-> "Commit", version |-> 0, timestamp |-> 0]]]
    /\ writer' = Abort(Some(p))
    /\ UNCHANGED <<ANNOTATIONS, now, committed, last, PROGRESS, ptask, plast, USERS, http>>

\* Database::get_annotations, the `?` of lines 122, 123, 125 and 127
GetAnnotationsFault(p) ==
    /\ proc[p].pc = "idle"
    /\ \E key \in DOMAIN ANNOTATIONS,
          kind \in {"Transaction", "Table", "Storage", "Serialization"} :
          /\ kind = "Serialization" => ~Decodes(ReadView(ANNOTATIONS, proc), key)
          /\ proc' = [proc EXCEPT ![p].view = Some([key |-> key, err |-> kind])]
    /\ UNCHANGED <<ANNOTATIONS, writer, now, committed, last, PROGRESS, ptask, plast, USERS, http>>

\* The base versions the clients of NextFault pass.
FaultBases == {None, Some(0), Some(1)}

NextFault ==
    \/ Tick
    \/ \E p \in Procs : Call(p, SmallPayloads, FaultBases)
    \/ \E p \in Procs : TxnConflict(p)
    \/ \E p \in Procs : TxnMerge(p)
    \/ \E p \in Procs : TxnFault(p)
    \/ \E p \in Procs : Commit(p)
    \/ \E p \in Procs : CommitFault(p)
    \/ \E p \in Procs : Return(p)

SpecFault == InitFault /\ [][NextFault]_vars

(***************************************************************************)
(* The progress operations.  set_progress takes its timestamp and encodes  *)
(* the record before it asks for the write transaction; its transaction    *)
(* holds one insert, so begin_write to commit is one step.                 *)
(***************************************************************************)
\* set_progress, lines 87-102: the key, the timestamp, the record and its JSON
SetProgressCall(t) ==
    /\ ptask[t].pc = "idle"
    /\ \E document \in AllDocs, payload \in ProgressPayloads :
          LET key == progress_key(User, document)
              data == NewProgress(document, payload.progress, payload.percentage,
                                  payload.device, payload.device_id, now)
          IN /\ key \in DOMAIN PROGRESS
             /\ ptask' = [ptask EXCEPT ![t] =
                            [@ EXCEPT !.pc = "called", !.key = key,
                                      !.data = Some(data),
                                      !.json = Some(progress_to_json(data))]]
    /\ UNCHANGED <<ANNOTATIONS, writer, proc, now, committed, last, PROGRESS, plast, USERS, http>>

\* lines 104-111: begin_write, open_table, insert, commit, Ok(timestamp)
SetProgressTxn(t) ==
    /\ ptask[t].pc = "called"
    /\ CanBeginWrite(writer)
    /\ PROGRESS' = TableInsert(PROGRESS, ptask[t].key, ptask[t].json[1])
    /\ plast' = [plast EXCEPT ![ptask[t].key] = ptask[t].data]
    /\ ptask' = [ptask EXCEPT ![t] =
                  [@ EXCEPT !.pc = "done",
                            !.res = [kind |-> "ok", version |-> 0,
                                     timestamp |-> ptask[t].data[1].timestamp[1]]]]
    /\ UNCHANGED <<ANNOTATIONS, writer, proc, now, committed, last, USERS, http>>

\* the `?` of lines 104, 106, 107 and 109: the error returns, nothing is stored
SetProgressFault(t) ==
    /\ ptask[t].pc = "called"
    /\ CanBeginWrite(writer)
    /\ \E kind \in {"Transaction", "Table", "Storage", "Commit"} :
          ptask' = [ptask EXCEPT ![t] =
                     [@ EXCEPT !.pc = "done",
                               !.res = [kind |-> kind, version |-> 0, timestamp |-> 0]]]
    /\ UNCHANGED <<ANNOTATIONS, writer, proc, now, committed, last, PROGRESS, plast, USERS, http>>

\* the call is over, its locals are gone
ReturnProgress(t) ==
    /\ ptask[t].pc = "done"
    /\ ptask' = [ptask EXCEPT ![t] = IdleTask]
    /\ UNCHANGED <<ANNOTATIONS, writer, proc, now, committed, last, PROGRESS, plast, USERS, http>>

\* Database::get_progress: a snapshot read of the committed table
GetProgress(t) ==
    /\ ptask[t].pc = "idle"
    /\ \E document \in AllDocs :
          LET key == progress_key(User, document)
          IN /\ key \in DOMAIN PROGRESS
             /\ ptask' = [ptask EXCEPT ![t].got =
                            Some([key |-> key,
                                  progress |-> CurrentProgress(PROGRESS, key)])]
    /\ UNCHANGED <<ANNOTATIONS, writer, proc, now, committed, last, PROGRESS, plast, USERS, http>>

\* The request body of the annotation client next to the progress clients.
OnePayload == {[annotations |-> <<A1>>, deleted |-> <<>>]}

NextProgress ==
    \/ Tick
    \/ \E t \in Procs : SetProgressCall(t)
    \/ \E t \in Procs : SetProgressTxn(t)
    \/ \E t \in Procs : ReturnProgress(t)
    \/ \E t \in Procs : GetProgress(t)
    \/ GetAnnotations("p1")
    \/ Call("p1", OnePayload, {None})
    \/ TxnMerge("p1")
    \/ Commit("p1")
    \/ Return("p1")

SpecProgress == Init /\ [][NextProgress]_vars

(***************************************************************************)
(* Two documents of one user, updated by two clients.                      *)
(***************************************************************************)
Keys2 == {annotations_key(User, d) : d \in AllDocs}

Init2 == InitOn(Keys2)

Next2 ==
    \/ \E p \in Procs : Call(p, SmallPayloads, FaultBases)
    \/ \E p \in Procs : TxnConflict(p)
    \/ \E p \in Procs : TxnMerge(p)
    \/ \E p \in Procs : Commit(p)
    \/ \E p \in Procs : CommitFault(p)
    \/ \E p \in Procs : Return(p)

Spec2 == Init2 /\ [][Next2]_vars

(***************************************************************************)
(* Reads next to updates that commit, conflict, or fail at commit.         *)
(***************************************************************************)
NextRead ==
    \/ \E p \in Procs : GetAnnotations(p)
    \/ \E p \in Procs : GetAnnotationsFault(p)
    \/ \E p \in Procs : Call(p, SmallPayloads, FaultBases)
    \/ \E p \in Procs : TxnConflict(p)
    \/ \E p \in Procs : TxnMerge(p)
    \/ \E p \in Procs : Commit(p)
    \/ \E p \in Procs : CommitFault(p)
    \/ \E p \in Procs : Return(p)

SpecRead == InitFault /\ [][NextRead]_vars

(***************************************************************************)
(* The store with Database::set_annotations, the public operation that no  *)
(* handler calls: it writes the record it is given, version included.      *)
(***************************************************************************)
\* The records a caller of set_annotations passes.
SetDocs ==
    {DefaultDoc,
     [version |-> 2, annotations |-> {A1}, deleted |-> <<T2>>, updated_at |-> 0]}

\* Database::set_annotations: to_vec, begin_write, insert, commit
SetAnnotations(p) ==
    /\ proc[p].pc = "idle"
    /\ CanBeginWrite(writer)
    /\ \E key \in DOMAIN ANNOTATIONS, annotations \in SetDocs :
          /\ committed[key] < MaxVersion
          /\ ANNOTATIONS' = TableInsert(ANNOTATIONS, key, to_vec(annotations))
          /\ last' = [last EXCEPT ![key] = Some(annotations)]
    /\ UNCHANGED <<writer, proc, now, committed, PROGRESS, ptask, plast, USERS, http>>

NextStore ==
    \/ Call("p1", SmallPayloads, BaseVersions)
    \/ TxnConflict("p1")
    \/ TxnMerge("p1")
    \/ Commit("p1")
    \/ Return("p1")
    \/ SetAnnotations("p1")

SpecStore == Init /\ [][NextStore]_vars

(***************************************************************************)
(* Devices that pass the version they hold, one call at a time, every      *)
(* request body within the bounds.                                         *)
(***************************************************************************)
DeviceBases == {Some(0), Some(1)}

NextDevices ==
    \/ Call("p1", Payloads, DeviceBases)
    \/ TxnConflict("p1")
    \/ TxnMerge("p1")
    \/ Commit("p1")
    \/ Return("p1")

SpecDevices == Init /\ [][NextDevices]_vars

(***************************************************************************)
(* The four operations with their faults, under fair scheduling: a task    *)
(* that can take its next step takes it (tokio runs every request task),   *)
(* and a task waiting in begin_write gets the write transaction if it is   *)
(* free again and again (redb queues writers).                             *)
(***************************************************************************)
LiveBases == {None, Some(0)}

NextLive ==
    \/ GetAnnotations("p1")
    \/ Call("p1", OnePayload, LiveBases)
    \/ TxnConflict("p1")
    \/ TxnMerge("p1")
    \/ TxnFault("p1")
    \/ Commit("p1")
    \/ CommitFault("p1")
    \/ Return("p1")
    \/ SetProgressCall("p1")
    \/ SetProgressTxn("p1")
    \/ SetProgressFault("p1")
    \/ ReturnProgress("p1")
    \/ GetProgress("p1")

Fairness ==
    /\ SF_vars(TxnConflict("p1") \/ TxnMerge("p1") \/ TxnFault("p1"))
    /\ WF_vars(Commit("p1") \/ CommitFault("p1"))
    /\ SF_vars(SetProgressTxn("p1") \/ SetProgressFault("p1"))

SpecLive == Init /\ [][NextLive]_vars /\ Fairness

(***************************************************************************)
(* Two calls in a row.  While the result of a successful call of task p is *)
(* on its way back, task q calls update_annotations for the same key with  *)
(* a request drawn from `payloads` and without a base version; the record  *)
(* q finds is the one p stored.                                            *)
(***************************************************************************)
\* update_annotations, lines 161-165, called right after p's commit
CallAfter(p, q, payloads) ==
    /\ proc[q].pc = "idle"
    /\ proc[p].pc = "done"
    /\ proc[p].res.kind = "ok"
    /\ Current(ANNOTATIONS, proc[p].key) = proc[p].new_doc[1]
    /\ \E payload \in payloads :
          proc' = [proc EXCEPT ![q] =
                    [@ EXCEPT !.pc = "called", !.document = proc[p].document,
                              !.key = proc[p].key,
                              !.base_version = None,
                              !.new_annotations = payload.annotations,
                              !.new_deleted = payload.deleted,
                              !.timestamp = now]]
    /\ UNCHANGED <<ANNOTATIONS, writer, now, committed, last, PROGRESS, ptask, plast, USERS, http>>

\* The request task p sent.
RequestOf(p) ==
    [annotations |-> proc[p].new_annotations, deleted |-> proc[p].new_deleted]

\* The same request is sent twice in a row.
NextTwice ==
    \/ Call("p1", Payloads, {None})
    \/ TxnMerge("p1")
    \/ Commit("p1")
    \/ (proc["p2"].pc = "idle" /\ Return("p1"))
    \/ CallAfter("p1", "p2", {RequestOf("p1")})
    \/ TxnMerge("p2")
    \/ Commit("p2")
    \/ Return("p2")

SpecTwice == Init /\ [][NextTwice]_vars

(***************************************************************************)
(* Two different requests in a row, neither with deletions, over           *)
(* annotations with three effective times: "10" < "2" < "3" byte-wise.     *)
(***************************************************************************)
T3 == <<3>>

OrderAnnotations ==
    {[datetime |-> x[1], datetime_updated |-> x[2],
      page |-> t[1], pos0 |-> t[2], pos1 |-> t[3]] :
        x \in {<<T10, None>>, <<T2, None>>, <<T10, Some(T3)>>}, t \in Triples}

OrderPayloads ==
    [annotations : SeqsUpTo(OrderAnnotations, MaxAnnLen), deleted : {<<>>}]

\* No two entries of the sequence at one position key have the same effective time.
DistinctTimes(annos) ==
    \A i, j \in DOMAIN annos :
        (i < j /\ position_key(annos[i]) = position_key(annos[j])) =>
            effective_time(annos[i]) # effective_time(annos[j])

\* The requests that tie with nothing p's call found or submitted.
OrderAfter(p) ==
    {payload \in OrderPayloads :
        \A server \in Orders(proc[p].current[1].annotations) :
            DistinctTimes(server \o proc[p].new_annotations \o payload.annotations)}

NextOrder ==
    \/ Call("p1", OrderPayloads, {None})
    \/ TxnMerge("p1")
    \/ Commit("p1")
    \/ (proc["p2"].pc = "idle" /\ Return("p1"))
    \/ CallAfter("p1", "p2", OrderAfter("p1"))
    \/ TxnMerge("p2")
    \/ Commit("p2")
    \/ Return("p2")

SpecOrder == Init /\ [][NextOrder]_vars

(***************************************************************************)
(* handlers.rs: the HTTP handlers in front of the store.  A handler task   *)
(* receives a request, authorizes it (every route but /users/create),      *)
(* validates the document identifier and calls the store.  The store call  *)
(* of a handler is one step here: what happens inside a transaction is the *)
(* subject of the specifications above.                                    *)
(***************************************************************************)
\* extract_auth: .filter(|s| !s.is_empty() && !s.contains(':'))
ValidUserHeader(s) == s # <<>> /\ ~Contains(s, ":")

\* extract_auth: .filter(|s| !s.is_empty()) on x-auth-key
ValidKeyHeader(s) == s # <<>>

\* extract_auth: Ok((user, key)) or Err(Unauthorized), here None
extract_auth(user, key) ==
    IF ValidUserHeader(user) /\ ValidKeyHeader(key) THEN Some(<<user, key>>) ELSE None

\* Database::verify_user
verify_user(table, username, password_hash) ==
    IF table[username] = None THEN FALSE ELSE table[username][1] = password_hash

\* Mutant: the secret of an existing user is replaced.
create_user_overwrite(table, username, password_hash) ==
    [created |-> table[username] = None,
     table |-> [table EXCEPT ![username] = Some(password_hash)]]

\* Database::create_user: the result and the table after the commit
create_user(table, username, password_hash) ==
    IF table[username] # None
    THEN [created |-> FALSE, table |-> table]
    ELSE [created |-> TRUE, table |-> [table EXCEPT ![username] = Some(password_hash)]]

\* Mutant: a document identifier is only required not to be empty.
InvalidDocumentEmptyOnly(document) == document = <<>>

\* if document.is_empty() || document.contains(':') { return Err(DocumentMissing) }
InvalidDocument(document) ==
    IF document = <<>> THEN TRUE ELSE Contains(document, ":")

\* create_user: if req.username.is_empty() || req.username.contains(':')
InvalidUsername(username) ==
    IF username = <<>> THEN TRUE ELSE Contains(username, ":")

\* One store operation a handler made, with the arguments it passed.
StoreCall(op, username, document) == [op |-> op, username |-> username, document |-> document]

\* The handler returns: its answer, and the store operations it made.
Answer(h, res, calls) ==
    [http EXCEPT ![h] = [@ EXCEPT !.pc = "done", !.res = res, !.calls = @ \o calls]]

\* axum hands a request to its handler
Receive(h) ==
    /\ http[h].pc = "idle"
    /\ \E route \in Routes, user \in UserNames, secret \in Secrets :
          \E document \in IF route \in {"create_user", "auth_user"}
                          THEN {None} ELSE {Some(d) : d \in DocNames} :
             http' = [http EXCEPT ![h] =
                       [IdleRequest EXCEPT !.pc = "received", !.route = route,
                                           !.user = Some(user), !.secret = Some(secret),
                                           !.document = document]]
    /\ UNCHANGED <<ANNOTATIONS, writer, proc, now, committed, last, PROGRESS, ptask, plast, USERS>>

\* handlers::create_user
CreateUserHandler(h) ==
    /\ http[h].pc = "received"
    /\ http[h].route = "create_user"
    /\ LET username == http[h].user[1]
           password == http[h].secret[1]
       IN IF InvalidUsername(username) \/ password = <<>>
          THEN /\ http' = Answer(h, "InvalidRequest", <<>>)
               /\ UNCHANGED USERS
          ELSE /\ CanBeginWrite(writer)
               /\ LET r == create_user(USERS, username, password)
                  IN /\ USERS' = r.table
                     /\ http' = Answer(h, IF r.created THEN "Created" ELSE "UserExists",
                                       <<StoreCall("create_user", username, None)>>)
    /\ UNCHANGED <<ANNOTATIONS, writer, proc, now, committed, last, PROGRESS, ptask, plast>>

\* authorize, the first statement of every other handler; auth_user ends there
Authorize(h) ==
    /\ http[h].pc = "received"
    /\ http[h].route # "create_user"
    /\ LET auth == extract_auth(http[h].user[1], http[h].secret[1])
       IN IF auth = None
          THEN http' = Answer(h, "Unauthorized", <<>>)
          ELSE LET user == auth[1][1]
                   key == auth[1][2]
                   call == <<StoreCall("verify_user", user, None)>>
               IN IF ~verify_user(USERS, user, key)
                  THEN http' = Answer(h, "Unauthorized", call)
                  ELSE IF http[h].route = "auth_user"
                  THEN http' = Answer(h, "OK", call)
                  ELSE http' = [http EXCEPT ![h] =
                                 [@ EXCEPT !.pc = "authorized", !.username = Some(user),
                                           !.calls = call]]
    /\ UNCHANGED <<ANNOTATIONS, writer, proc, now, committed, last, PROGRESS, ptask, plast, USERS>>

\* handlers::get_progress after authorize
GetProgressHandler(h) ==
    /\ http[h].pc = "authorized"
    /\ http[h].route = "get_progress"
    /\ LET username == http[h].username[1]
           document == http[h].document[1]
       IN IF InvalidDocument(document)
          THEN http' = Answer(h, "DocumentMissing", <<>>)
          ELSE LET key == progress_key(username, document)
               IN http' = [Answer(h, "OK", <<StoreCall("get_progress", username, Some(document))>>)
                             EXCEPT ![h].got = Some([key |-> key,
                                                     value |-> CurrentProgress(PROGRESS, key)])]
    /\ UNCHANGED <<ANNOTATIONS, writer, proc, now, committed, last, PROGRESS, ptask, plast, USERS>>

\* The bodies of PUT /syncs/progress: one has an empty `progress`.
ProgressBodies ==
    ProgressPayloads \cup
        {[progress |-> <<>>, percentage |-> 10, device |-> <<"A">>, device_id |-> None]}

\* handlers::update_progress after authorize
UpdateProgressHandler(h) ==
    /\ http[h].pc = "authorized"
    /\ http[h].route = "update_progress"
    /\ LET username == http[h].username[1]
           document == http[h].document[1]
       IN IF InvalidDocument(document)
          THEN /\ http' = Answer(h, "DocumentMissing", <<>>)
               /\ UNCHANGED <<PROGRESS, plast>>
          ELSE \E req \in ProgressBodies :
                 IF req.progress = <<>> \/ req.device = <<>>
                 THEN /\ http' = Answer(h, "InvalidRequest", <<>>)
                      /\ UNCHANGED <<PROGRESS, plast>>
                 ELSE LET key == progress_key(username, document)
                          data == NewProgress(document, req.progress, req.percentage,
                                              req.device, req.device_id, now)
                      IN /\ CanBeginWrite(writer)
                         /\ PROGRESS' = TableInsert(PROGRESS, key, progress_to_json(data))
                         /\ plast' = [plast EXCEPT ![key] = Some(data)]
                         /\ http' = Answer(h, "OK",
                                           <<StoreCall("set_progress", username, Some(document))>>)
    /\ UNCHANGED <<ANNOTATIONS, writer, proc, now, committed, last, ptask, USERS>>

\* handlers::get_annotations after authorize
GetAnnotationsHandler(h) ==
    /\ http[h].pc = "authorized"
    /\ http[h].route = "get_annotations"
    /\ LET username == http[h].username[1]
           document == http[h].document[1]
       IN IF InvalidDocument(document)
          THEN http' = Answer(h, "DocumentMissing", <<>>)
          ELSE LET key == annotations_key(username, document)
               IN http' = [Answer(h, "OK", <<StoreCall("get_annotations", username, Some(document))>>)
                             EXCEPT ![h].got = Some([key |-> key,
                                                     value |-> Current(ANNOTATIONS, key)])]
    /\ UNCHANGED <<ANNOTATIONS, writer, proc, now, committed, last, PROGRESS, ptask, plast, USERS>>

\* The base versions the HTTP clients send.
HandlerBases == {None, Some(0)}

\* handlers::update_annotations after authorize; Database::update_annotations
\* as one step
UpdateAnnotationsHandler(h) ==
    /\ http[h].pc = "authorized"
    /\ http[h].route = "update_annotations"
    /\ LET username == http[h].username[1]
           document == http[h].document[1]
       IN IF InvalidDocument(document)
          THEN /\ http' = Answer(h, "DocumentMissing", <<>>)
               /\ UNCHANGED <<ANNOTATIONS, committed, last>>
          ELSE LET key == annotations_key(username, document)
                   current == Current(ANNOTATIONS, key)
                   call == <<StoreCall("update_annotations", username, Some(document))>>
               IN /\ CanBeginWrite(writer)
                  /\ current.version < MaxVersion
                  /\ \E req \in OnePayload, base_version \in HandlerBases :
                        IF VersionConflict(base_version, current)
                        THEN /\ http' = Answer(h, "VersionConflict", call)
                             /\ UNCHANGED <<ANNOTATIONS, committed, last>>
                        ELSE \E server \in Orders(current.annotations) :
                               LET merged == merge_annotations(server, req.annotations,
                                                               current.deleted, req.deleted)
                                   all_deleted == MergeDeleted(current.deleted, req.deleted)
                                   new_doc == NewDoc(current, merged, all_deleted, now)
                               IN /\ ANNOTATIONS' = TableInsert(ANNOTATIONS, key, to_vec(new_doc))
                                  /\ committed' = [committed EXCEPT ![key] = @ + 1]
                                  /\ last' = [last EXCEPT ![key] = Some(new_doc)]
                                  /\ http' = Answer(h, "OK", call)
    /\ UNCHANGED <<writer, proc, now, PROGRESS, ptask, plast, USERS>>

\* the response is sent, the task is free
Respond(h) ==
    /\ http[h].pc = "done"
    /\ http' = [http EXCEPT ![h] = IdleRequest]
    /\ UNCHANGED <<ANNOTATIONS, writer, proc, now, committed, last, PROGRESS, ptask, plast, USERS>>

\* Every key a pair of the request values can form.
HandlerKeys == {annotations_key(u, d) : u \in UserNames, d \in DocNames}

InitHandlers == InitOn(HandlerKeys)

NextHandlers ==
    \/ Receive("p1")
    \/ CreateUserHandler("p1")
    \/ Authorize("p1")
    \/ GetProgressHandler("p1")
    \/ UpdateProgressHandler("p1")
    \/ GetAnnotationsHandler("p1")
    \/ UpdateAnnotationsHandler("p1")
    \/ Respond("p1")

SpecHandlers == InitHandlers /\ [][NextHandlers]_vars

(***************************************************************************)
(* Properties of the update protocol, checked under Spec.                  *)
(***************************************************************************)
Stored(p) == Current(ANNOTATIONS, proc[p].key)
Succeeded(p) == proc[p].pc = "done" /\ proc[p].res.kind = "ok"
Conflicted(p) == proc[p].pc = "done" /\ proc[p].res.kind = "conflict"
\* the call passes the version its client read last
Fresh(p) ==
    /\ proc[p].view # None
    /\ proc[p].view[1].key = proc[p].key
    /\ proc[p].base_version = Some(proc[p].view[1].doc.version)

\* C1: per key, the k-th update_annotations that commits stores and returns
\* version k: the stored version equals the number of commits so far, and each
\* successful call wrote exactly the version it read plus one, whatever
\* conflicting calls ran in between.
C1_VersionCountsCommits ==
    /\ \A k \in DOMAIN ANNOTATIONS : Current(ANNOTATIONS, k).version = committed[k]
    /\ \A p \in Procs : Succeeded(p) =>
          /\ proc[p].res.version = proc[p].nth
          /\ proc[p].new_doc[1].version = proc[p].nth
          /\ proc[p].new_doc[1].version = proc[p].current[1].version + 1

C1_Witness ==
    \E p, q \in Procs :
        /\ Succeeded(p) /\ proc[p].nth = 2 /\ proc[p].res.version = 2
        /\ Conflicted(q) /\ proc[q].key = proc[p].key

\* C2: a call whose base_version differs from the stored version, the stored
\* version being greater than 0, ends in version-conflict, and the step in which
\* it does leaves the whole table (version, annotations, deleted, updated_at of
\* every record) as it was.
C2_StaleBaseConflicts ==
    [][\A p \in Procs :
         (proc[p].pc = "called" /\ proc'[p].pc # "called") =>
            LET stored == Current(ANNOTATIONS, proc[p].key)
                base == proc[p].base_version
            IN (base # None /\ base[1] # stored.version /\ stored.version > 0) =>
                  /\ proc'[p].pc = "done"
                  /\ proc'[p].res.kind = "conflict"
                  /\ ANNOTATIONS' = ANNOTATIONS]_vars

C2_Witness ==
    \E p \in Procs :
        /\ Conflicted(p)
        /\ proc[p].base_version[1] > proc[p].current[1].version
        /\ proc[p].current[1].annotations # {}
        /\ Stored(p) = proc[p].current[1]

\* C3: a call that finds no record (stored version 0) never conflicts, whatever
\* base_version it passes, and writes and returns version 1.
C3_BootstrapExempt ==
    \A p \in Procs :
        (proc[p].current # None /\ proc[p].current[1].version = 0) =>
            /\ proc[p].pc \in {"commit", "done"}
            /\ proc[p].res.kind # "conflict"
            /\ proc[p].new_doc # None
            /\ proc[p].new_doc[1].version = 1
            /\ proc[p].pc = "done" =>
                  /\ proc[p].res.kind = "ok"
                  /\ proc[p].res.version = 1
                  /\ ANNOTATIONS[proc[p].key] # None

C3_Witness ==
    \E p \in Procs :
        /\ Succeeded(p)
        /\ proc[p].current[1].version = 0
        /\ proc[p].base_version = Some(2)
        /\ Stored(p).version = 1

\* C4: two calls on one key that both pass the version their clients read, the
\* same value v (0 for an absent record): one commits, the other ends in
\* version-conflict, and the one that commits merged into exactly the record
\* its client had read.
C4_OneOfTwoCommits ==
    \A p, q \in Procs :
        (/\ p # q
         /\ proc[p].pc = "done" /\ proc[q].pc = "done"
         /\ proc[p].key = proc[q].key
         /\ Fresh(p) /\ Fresh(q)
         /\ proc[p].base_version = proc[q].base_version) =>
            /\ Succeeded(p) \/ Succeeded(q)
            /\ Conflicted(p) \/ Conflicted(q)
            /\ Succeeded(p) => proc[p].current[1] = proc[p].view[1].doc

C4_Witness ==
    \E p, q \in Procs :
        /\ p # q
        /\ proc[p].key = proc[q].key
        /\ Fresh(p) /\ Fresh(q)
        /\ proc[p].base_version = Some(0) /\ proc[q].base_version = Some(0)
        /\ Succeeded(p) /\ Conflicted(q)
        /\ proc[q].new_annotations # <<>>

(***************************************************************************)
(* Properties of the merge, checked under SpecMerge.                       *)
(***************************************************************************)
TripleOf(a) == <<a.page, a.pos0, a.pos1>>
AtTriple(S, t) == {x \in S : TripleOf(x) = t}
Later(a, b) == StrGt(effective_time(a), effective_time(b))
Tombstoned(doc, a) == \E i \in DOMAIN doc.deleted : doc.deleted[i] = a.datetime

\* C5: no stored annotation has a datetime that is in the stored deleted list of
\* its record.  (Violated: a request that lists in `deleted` the datetime of an
\* annotation it submits gets both stored.)
C5_NoTombstonedAnnotation ==
    \A k \in DOMAIN ANNOTATIONS :
        \A a \in Current(ANNOTATIONS, k).annotations :
            ~Tombstoned(Current(ANNOTATIONS, k), a)

\* C6: an update adds no annotation whose datetime was in the stored deleted list
\* before it: every such annotation of the new record was in the old one; and the
\* deleted list keeps every entry, so the same holds of every later update.
C6_TombstoneBlocksResubmission ==
    \A p \in Procs : Succeeded(p) =>
        LET before == proc[p].current[1]
            after == Stored(p)
        IN /\ \A a \in after.annotations :
                 Tombstoned(before, a) => a \in before.annotations
           /\ \A i \in DOMAIN before.deleted :
                 \E j \in DOMAIN after.deleted : after.deleted[j] = before.deleted[i]

C6_Witness ==
    \E p \in Procs :
        /\ Succeeded(p)
        /\ \E i \in DOMAIN proc[p].new_annotations :
              LET a == proc[p].new_annotations[i]
              IN /\ Tombstoned(proc[p].current[1], a)
                 /\ a.datetime_updated # None
                 /\ AtTriple(proc[p].current[1].annotations, TripleOf(a)) = {}
                 /\ a \notin Stored(p).annotations
        /\ Stored(p).annotations # {}

\* C7: the record holds an annotation with datetime t; an update with no
\* annotations and t in its deleted list succeeds: afterwards the record holds no
\* annotation with datetime t and its deleted list contains t.
C7_ClientDeletionRemoves ==
    \A p \in Procs :
        (Succeeded(p) /\ proc[p].new_annotations = <<>>) =>
            \A i \in DOMAIN proc[p].new_deleted :
                LET t == proc[p].new_deleted[i]
                IN (\E a \in proc[p].current[1].annotations : a.datetime = t) =>
                      /\ \A a \in Stored(p).annotations : a.datetime # t
                      /\ \E j \in DOMAIN Stored(p).deleted : Stored(p).deleted[j] = t

C7_Witness ==
    \E p \in Procs :
        /\ Succeeded(p) /\ proc[p].new_annotations = <<>>
        /\ proc[p].new_deleted = <<T2>>
        /\ \E a \in proc[p].current[1].annotations :
              a.datetime = T2 /\ a.datetime_updated # None
        /\ \E a \in proc[p].current[1].annotations : a.datetime = T10
        /\ \A a \in Stored(p).annotations : a.datetime = T10
        /\ Stored(p).annotations # {}

\* C8: the record holds s at a triple; a successful update submits c # s at that
\* triple, effective time strictly later than s's, datetime not in the stored
\* deleted list: afterwards the record holds exactly one annotation at the
\* triple, a submitted one that is strictly later than s, and it is c when c is
\* the request's only annotation at the triple.
C8_LaterSubmissionReplaces ==
    \A p \in Procs : Succeeded(p) =>
        LET before == proc[p].current[1]
            after == Stored(p)
            req == proc[p].new_annotations
        IN \A s \in before.annotations : \A i \in DOMAIN req :
              (/\ TripleOf(req[i]) = TripleOf(s)
               /\ req[i] # s
               /\ Later(req[i], s)
               /\ ~Tombstoned(before, req[i])) =>
                  LET there == AtTriple(after.annotations, TripleOf(s))
                  IN /\ Cardinality(there) = 1
                     /\ \A x \in there :
                           /\ \E j \in DOMAIN req : req[j] = x
                           /\ Later(x, s)
                           /\ ~Tombstoned(before, x)
                     /\ (\A j \in DOMAIN req : TripleOf(req[j]) = TripleOf(s) => req[j] = req[i])
                           => there = {req[i]}

C8_Witness ==
    \E p \in Procs :
        /\ Succeeded(p)
        /\ Len(proc[p].new_annotations) = 1
        /\ LET c == proc[p].new_annotations[1]
           IN /\ \E s \in proc[p].current[1].annotations :
                    /\ TripleOf(s) = TripleOf(c) /\ s # c /\ Later(c, s)
                    /\ s.datetime_updated # None /\ c.datetime_updated = None
                    /\ ~Tombstoned(proc[p].current[1], s)
              /\ ~Tombstoned(Stored(p), c)
              /\ AtTriple(Stored(p).annotations, TripleOf(c)) = {c}

\* C9: s is stored and not deleted by the request.  A submitted annotation at
\* s's triple that is not strictly later than s, and is not s itself, is not
\* stored; and s stays stored unless the request holds an annotation at the
\* triple, not deleted on the server, that is strictly later than s.
C9_TieKeepsStored ==
    \A p \in Procs : Succeeded(p) =>
        LET before == proc[p].current[1]
            after == Stored(p)
            req == proc[p].new_annotations
        IN \A s \in before.annotations :
              ~(\E i \in DOMAIN proc[p].new_deleted : proc[p].new_deleted[i] = s.datetime) =>
                 /\ \A i \in DOMAIN req :
                       (TripleOf(req[i]) = TripleOf(s) /\ req[i] # s /\ ~Later(req[i], s))
                          => req[i] \notin after.annotations
                 /\ (s \in after.annotations) <=>
                       ~(\E i \in DOMAIN req :
                            /\ TripleOf(req[i]) = TripleOf(s)
                            /\ Later(req[i], s)
                            /\ ~Tombstoned(before, req[i]))

C9_Witness ==
    \E p \in Procs :
        /\ Succeeded(p)
        /\ Len(proc[p].new_annotations) = 1
        /\ proc[p].new_deleted = <<>>
        /\ LET c == proc[p].new_annotations[1]
           IN \E s \in proc[p].current[1].annotations :
                 /\ TripleOf(s) = TripleOf(c) /\ s # c
                 /\ effective_time(c) = effective_time(s)
                 /\ ~Tombstoned(proc[p].current[1], c)
                 /\ s \in Stored(p).annotations
                 /\ c \notin Stored(p).annotations

\* C10: a stored record never holds two annotations at one triple.
C10_OnePerTriple ==
    \A k \in DOMAIN ANNOTATIONS :
        \A a, b \in Current(ANNOTATIONS, k).annotations :
            TripleOf(a) = TripleOf(b) => a = b

C10_Witness ==
    \E p \in Procs :
        /\ Succeeded(p)
        /\ Len(proc[p].new_annotations) = 2
        /\ TripleOf(proc[p].new_annotations[1]) = TripleOf(proc[p].new_annotations[2])
        /\ proc[p].new_annotations[1] # proc[p].new_annotations[2]
        /\ ~Tombstoned(proc[p].current[1], proc[p].new_annotations[1])
        /\ ~Tombstoned(proc[p].current[1], proc[p].new_annotations[2])
        /\ Cardinality(AtTriple(Stored(p).annotations, TripleOf(proc[p].new_annotations[1]))) = 1
        /\ Cardinality(Stored(p).annotations) = 2

\* C11: after a successful update the stored deleted list holds exactly the
\* entries of the previously stored list and of the incoming list, each once,
\* also when the incoming list repeats a value; and no step of the store removes
\* an entry from the deleted list of any record.
C11_DeletedIsUnion ==
    /\ [](\A p \in Procs : Succeeded(p) =>
            LET before == proc[p].current[1].deleted
                after == Stored(p).deleted
            IN /\ Range(after) = Range(before) \cup Range(proc[p].new_deleted)
               /\ Len(after) = Cardinality(Range(after)))
    /\ [][\A k \in DOMAIN ANNOTATIONS :
            Range(Current(ANNOTATIONS, k).deleted)
                \subseteq Range(Current(ANNOTATIONS', k).deleted)]_vars

C11_Witness ==
    \E p \in Procs :
        /\ Succeeded(p)
        /\ proc[p].current[1].deleted = <<T10>>
        /\ proc[p].new_deleted = <<T2, T2>>
        /\ Stored(p).deleted = <<T10, T2>>

(***************************************************************************)
(* The life of one record, checked under SpecStore.                        *)
(***************************************************************************)
\* C12: in every step of the store the version of every record stays as it is
\* or grows by exactly one, and it grows only in the commit of a successful
\* update_annotations on that record; a record that is present stays present.
\* (Violated: set_annotations stores the version it is given.)
C12_VersionStepsByOne ==
    [][\A k \in DOMAIN ANNOTATIONS :
          LET v == Current(ANNOTATIONS, k).version
              w == Current(ANNOTATIONS', k).version
          IN /\ w = v \/ w = v + 1
             /\ w = v + 1 =>
                   \E p \in Procs :
                       /\ proc[p].pc = "commit" /\ proc[p].key = k
                       /\ proc'[p].pc = "done" /\ proc'[p].res.kind = "ok"
                       /\ proc'[p].res.version = w
             /\ ANNOTATIONS[k] # None => ANNOTATIONS'[k] # None]_vars

(***************************************************************************)
(* Failing calls, checked under SpecFault.                                 *)
(***************************************************************************)
Failed(p) == proc[p].pc = "done" /\ proc[p].res.kind \notin {"ok", "none"}

\* C13: the step in which a call fails (version conflict, undecodable record,
\* table or storage fault, fault at commit) leaves every stored record as it was,
\* and the only step that changes the table is the commit of a call that
\* succeeds: it changes the record of that call alone and replaces version (the
\* one read plus one), annotations, deleted and updated_at (the timestamp of the
\* call) together by those of the record the call computed.
C13_AllOrNothing ==
    [][/\ \A p \in Procs :
             (proc[p].pc \in {"called", "commit"} /\ proc'[p].pc = "done"
                 /\ proc'[p].res.kind # "ok") => ANNOTATIONS' = ANNOTATIONS
       /\ ANNOTATIONS' # ANNOTATIONS =>
             \E p \in Procs :
                 /\ proc[p].pc = "commit" /\ proc'[p].pc = "done"
                 /\ proc'[p].res.kind = "ok"
                 /\ \A k \in DOMAIN ANNOTATIONS :
                       IF k = proc[p].key
                       THEN LET old == Current(ANNOTATIONS, k)
                                new == Current(ANNOTATIONS', k)
                            IN /\ new = proc[p].new_doc[1]
                               /\ new.version = old.version + 1
                               /\ new.updated_at = proc[p].timestamp
                               /\ Range(old.deleted) \subseteq Range(new.deleted)
                       ELSE ANNOTATIONS'[k] = ANNOTATIONS[k]]_vars

C13_Witness ==
    \E p \in Procs :
        /\ Failed(p) /\ proc[p].res.kind = "Commit"
        /\ ANNOTATIONS[proc[p].key] # None
        /\ Stored(p) = proc[p].current[1]
        /\ proc[p].new_doc[1].annotations # Stored(p).annotations
        /\ proc[p].new_doc[1].deleted # Stored(p).deleted
        /\ proc[p].new_doc[1].updated_at # Stored(p).updated_at

(***************************************************************************)
(* Reads, checked under SpecRead.                                          *)
(***************************************************************************)
LastCommitted(k) == IF last[k] = None THEN DefaultDoc ELSE last[k][1]

\* C14: the record a get_annotations returns is, whole, the record the last
\* commit on its key wrote before the read (the default record when there was
\* none): version, annotations, deleted and updated_at come from that one
\* update, and never from the record of a call that holds the write
\* transaction and has not committed, whether it goes on to commit or to fail.
C14_ReadsLastCommitted ==
    [][\A p \in Procs :
          (proc'[p].view # proc[p].view /\ proc'[p].view # None
              /\ "doc" \in DOMAIN proc'[p].view[1]) =>
             LET got == proc'[p].view[1]
             IN /\ got.doc = LastCommitted(got.key)
                /\ \A q \in Procs :
                      (proc[q].pc = "commit" /\ proc[q].key = got.key)
                          => got.doc # proc[q].new_doc[1]]_vars

C14_Witness ==
    \E p, q \in Procs :
        /\ p # q
        /\ Failed(q) /\ proc[q].res.kind = "Commit"
        /\ proc[p].pc = "idle" /\ proc[p].view # None
        /\ "doc" \in DOMAIN proc[p].view[1]
        /\ proc[p].view[1].key = proc[q].key
        /\ proc[p].view[1].doc = proc[q].current[1]
        /\ proc[p].view[1].doc.version = 1
        /\ proc[q].new_doc[1].version = 2

(***************************************************************************)
(* Two documents, checked under Spec2.                                     *)
(***************************************************************************)
RecordOf(table, d) == table[annotations_key(User, d)]

\* C15: no step of an update_annotations call on one document, whether the call
\* commits, conflicts or fails at commit, changes the record of another
\* document; and whatever ran on other documents in between, the call reads the
\* record the last commit on its own document wrote, conflicts exactly when its
\* base differs from that record's version (above 0), and otherwise writes and
\* returns that version plus one, the number of commits on its own document.
C15_DocumentsIndependent ==
    [][\A p \in Procs :
          (proc'[p] # proc[p] /\ proc'[p].view = proc[p].view) =>
             LET d1 == IF proc[p].document # None THEN proc[p].document[1]
                       ELSE proc'[p].document[1]
                 mine == LastCommitted(annotations_key(User, d1))
                 base == proc[p].base_version
             IN /\ \A d \in AllDocs \ {d1} :
                       RecordOf(ANNOTATIONS', d) = RecordOf(ANNOTATIONS, d)
                /\ (proc[p].pc = "called" /\ proc'[p].current # None) =>
                       /\ proc'[p].current[1] = mine
                       /\ proc'[p].res.kind = "conflict"
                             <=> (base # None /\ base[1] # mine.version /\ mine.version > 0)
                       /\ proc'[p].pc = "commit"
                             <=> ~(base # None /\ base[1] # mine.version /\ mine.version > 0)
                       /\ proc'[p].pc = "commit"
                             => proc'[p].new_doc[1].version = mine.version + 1
                /\ (proc[p].pc = "commit" /\ proc'[p].res.kind = "ok") =>
                       /\ proc'[p].res.version = mine.version + 1
                       /\ proc'[p].res.version = committed'[annotations_key(User, d1)]
                       /\ Current(ANNOTATIONS', annotations_key(User, d1)) = proc[p].new_doc[1]]_vars

C15_Witness ==
    \E p, q \in Procs :
        /\ Succeeded(p) /\ proc[p].document = Some(<<"d1">>) /\ proc[p].nth = 2
        /\ proc[q].pc = "done" /\ proc[q].document = Some(<<"d2">>)
        /\ proc[q].res.kind \in {"conflict", "Commit"}
        /\ proc[q].current[1].version = 1
        /\ RecordOf(ANNOTATIONS, <<"d2">>) # RecordOf(ANNOTATIONS, <<"d1">>)
        /\ Current(ANNOTATIONS, proc[q].key) = proc[q].current[1]
        /\ Current(ANNOTATIONS, proc[p].key) = proc[p].new_doc[1]

(***************************************************************************)
(* The progress store, checked under SpecProgress.                         *)
(***************************************************************************)
LastProgress(k) == IF plast[k] = None THEN ProgressDefault ELSE plast[k][1]

\* C16: the progress record under a key is, field for field, the record of the
\* set_progress that committed last: device_id is absent when that call passed
\* none, whatever the calls before it stored; get_progress returns that record;
\* and no step of set_progress changes the annotations table.
C16_ProgressReplaced ==
    /\ [](\A k \in DOMAIN PROGRESS :
             /\ CurrentProgress(PROGRESS, k) = LastProgress(k)
             /\ LastProgress(k).device_id = None
                   => (PROGRESS[k] = None \/ "device_id" \notin DOMAIN PROGRESS[k][1]))
    /\ [][/\ \A t \in Procs :
               (ptask'[t].got # ptask[t].got /\ ptask'[t].got # None) =>
                   ptask'[t].got[1].progress = LastProgress(ptask'[t].got[1].key)
          /\ ptask' # ptask => ANNOTATIONS' = ANNOTATIONS]_vars

C16_Witness ==
    \E t, u \in Procs :
        /\ t # u
        /\ ptask[t].pc = "done" /\ ptask[u].pc = "done"
        /\ ptask[t].res.kind = "ok" /\ ptask[u].res.kind = "ok"
        /\ ptask[t].key = ptask[u].key
        /\ ptask[u].data[1].device_id # None
        /\ ptask[t].data[1].device_id = None
        /\ plast[ptask[t].key] = ptask[t].data
        /\ ptask[t].data[1].timestamp[1] > ptask[u].data[1].timestamp[1]
        /\ CurrentProgress(PROGRESS, ptask[t].key).device_id = None
        /\ CurrentProgress(PROGRESS, ptask[t].key).device = Some(<<"B">>)
        /\ ANNOTATIONS[ptask[t].key] # None

\* C17: under a key that no call has written, get_annotations returns version 0,
\* no annotations, no deleted entries and updated_at 0, and get_progress returns
\* a record with every field absent; both return a record, not an error; neither
\* changes a table, so the key stays absent and the first update_annotations on
\* it reads version 0 and writes version 1.
C17_AbsentDefaults ==
    /\ [](/\ \A k \in DOMAIN ANNOTATIONS : committed[k] = 0 => ANNOTATIONS[k] = None
          /\ \A k \in DOMAIN PROGRESS : plast[k] = None => PROGRESS[k] = None
          /\ \A p \in Procs :
                (proc[p].current # None /\ proc[p].nth <= 1
                    /\ (proc[p].pc = "commit" => committed[proc[p].key] = 0)) =>
                    /\ proc[p].current[1].version = 0
                    /\ proc[p].new_doc[1].version = 1)
    /\ [][/\ \A p \in Procs :
               (proc'[p].view # proc[p].view /\ proc'[p].view # None
                   /\ committed[proc'[p].view[1].key] = 0) =>
                   /\ "doc" \in DOMAIN proc'[p].view[1]
                   /\ proc'[p].view[1].doc =
                         [version |-> 0, annotations |-> {}, deleted |-> <<>>,
                          updated_at |-> 0]
                   /\ ANNOTATIONS' = ANNOTATIONS /\ PROGRESS' = PROGRESS
          /\ \A t \in Procs :
               (ptask'[t].got # ptask[t].got /\ ptask'[t].got # None
                   /\ plast[ptask'[t].got[1].key] = None) =>
                   /\ ptask'[t].got[1].progress =
                         [document |-> None, progress |-> None, percentage |-> None,
                          device |-> None, device_id |-> None, timestamp |-> None]
                   /\ ANNOTATIONS' = ANNOTATIONS /\ PROGRESS' = PROGRESS]_vars

C17_Witness ==
    \E p, t \in Procs :
        /\ Succeeded(p) /\ proc[p].nth = 1
        /\ proc[p].view # None /\ proc[p].view[1].key = proc[p].key
        /\ proc[p].view[1].doc.version = 0
        /\ proc[p].current[1].version = 0
        /\ Stored(p).version = 1
        /\ ptask[t].got # None
        /\ ptask[t].got[1].progress.document = None
        /\ PROGRESS[ptask[t].got[1].key] = None

(***************************************************************************)
(* Accumulation, checked under SpecDevices.                                *)
(***************************************************************************)
\* C18: a device submits one annotation a with base_version 0 to an absent
\* record: the call succeeds and stores a at version 1.  A device then submits
\* one annotation b at another triple with base_version 1: the call succeeds
\* and stores a and b at version 2.  And every successful update keeps each
\* stored annotation whose triple no submitted annotation has and whose
\* datetime is not in the incoming deleted list.
C18_DisjointMergeAccumulates ==
    \A p \in Procs :
        (proc[p].pc = "done" /\ proc[p].current # None) =>
            LET before == proc[p].current[1]
                after == Stored(p)
                req == proc[p].new_annotations
                del == proc[p].new_deleted
            IN /\ (/\ before.version = 0 /\ proc[p].base_version = Some(0)
                    /\ Len(req) = 1 /\ del = <<>>) =>
                      /\ Succeeded(p) /\ proc[p].res.version = 1
                      /\ after.version = 1 /\ after.annotations = {req[1]}
               /\ (/\ before.version = 1 /\ proc[p].base_version = Some(1)
                    /\ Cardinality(before.annotations) = 1 /\ before.deleted = <<>>
                    /\ Len(req) = 1 /\ del = <<>>
                    /\ AtTriple(before.annotations, TripleOf(req[1])) = {}) =>
                      /\ Succeeded(p) /\ proc[p].res.version = 2
                      /\ after.version = 2
                      /\ after.annotations = before.annotations \cup {req[1]}
                      /\ Cardinality(after.annotations) = 2
               /\ Succeeded(p) =>
                      \A s \in before.annotations :
                          (/\ \A i \in DOMAIN req : TripleOf(req[i]) # TripleOf(s)
                           /\ \A i \in DOMAIN del : del[i] # s.datetime)
                              => s \in after.annotations

C18_Witness ==
    \E p \in Procs :
        /\ Succeeded(p) /\ proc[p].base_version = Some(1)
        /\ proc[p].current[1].version = 1
        /\ proc[p].current[1].updated_at = 1
        /\ proc[p].current[1].deleted = <<>>
        /\ Len(proc[p].new_annotations) = 1 /\ proc[p].new_deleted = <<>>
        /\ \E a \in proc[p].current[1].annotations :
              /\ TripleOf(a) # TripleOf(proc[p].new_annotations[1])
              /\ Stored(p).annotations = {a, proc[p].new_annotations[1]}
        /\ Stored(p).version = 2

(***************************************************************************)
(* Termination, checked under SpecLive.                                    *)
(***************************************************************************)
\* C19: every update_annotations and every set_progress that was called comes
\* to its result, success or error, whether the calls around it succeed,
\* conflict or fail; once no call is between begin_write and commit the write
\* transaction is free; and get_annotations and get_progress, which take no
\* write transaction, can return at any moment, also while a writer holds it.
C19_CallsReturn ==
    /\ \A p \in Procs : (proc[p].pc = "called") ~> (proc[p].pc = "done")
    /\ \A t \in Procs : (ptask[t].pc = "called") ~> (ptask[t].pc = "done")
    /\ []((\A p \in Procs : proc[p].pc # "commit") => writer = None)
    /\ [](\A p \in Procs :
             /\ proc[p].pc = "idle" => ENABLED GetAnnotations(p)
             /\ ptask[p].pc = "idle" => ENABLED GetProgress(p))

C19_Witness ==
    \E p, t \in Procs :
        /\ Conflicted(p) /\ proc[p].current[1].version = 1
        /\ ptask[t].pc = "done" /\ ptask[t].res.kind = "ok"
        /\ writer = None

(***************************************************************************)
(* Error reporting, checked under SpecFault.                               *)
(***************************************************************************)
\* C20: a call that fails with a serialization fault and a call that fails with
\* a storage or transaction fault end with different error kinds and are
\* answered with different error codes.  (Violated: both are answered with
\* code 2000, and with status 500.)
C20_SerializationDistinct ==
    \A p, q \in Procs :
        (/\ Failed(p) /\ proc[p].res.kind = "Serialization"
         /\ Failed(q) /\ proc[q].res.kind \in StorageKinds) =>
            /\ proc[p].res.kind # proc[q].res.kind
            /\ into_response(proc[p].res.kind).code # into_response(proc[q].res.kind).code

(***************************************************************************)
(* Properties of the handlers, checked under SpecHandlers.                 *)
(***************************************************************************)
WellFormed(s) == s # <<>> /\ \A i \in DOMAIN s : s[i] # ":"
RecordOps == {"get_progress", "set_progress", "get_annotations", "update_annotations"}
OnlyPair(k, u, d) ==
    \A u2 \in UserNames, d2 \in DocNames :
        u2 \o <<":">> \o d2 = k => (u2 = u /\ d2 = d)
OwnedBy(k, u) ==
    \A u2 \in UserNames, d2 \in DocNames : u2 \o <<":">> \o d2 = k => u2 = u
Authenticated(h) ==
    /\ WellFormed(http[h].user[1])
    /\ USERS[http[h].user[1]] # None
    /\ USERS[http[h].user[1]] = http[h].secret

C22_CreateUserKeepsFirstSecret ==
    [][/\ \A u \in UserNames : USERS[u] # None => USERS'[u] = USERS[u]
       /\ \A h \in Procs :
             (/\ http[h].pc = "received" /\ http'[h].pc = "done"
              /\ http[h].route = "create_user"
              /\ http'[h].calls # <<>>) =>
                 LET u == http[h].user[1]
                     secret == http[h].secret[1]
                 IN IF USERS[u] # None
                    THEN http'[h].res = "UserExists" /\ USERS' = USERS
                    ELSE /\ http'[h].res = "Created"
                         /\ USERS' = [USERS EXCEPT ![u] = Some(secret)]
       /\ \A h \in Procs :
             (/\ http[h].pc = "received" /\ http'[h].pc = "done"
              /\ http[h].route = "auth_user") =>
                 (http'[h].res = "OK" <=> USERS[http[h].user[1]] = http[h].secret)]_vars

C22_Witness ==
    /\ http["p1"].pc = "done"
    /\ http["p1"].route = "create_user"
    /\ http["p1"].user = Some(<<"a">>)
    /\ http["p1"].secret = Some(<<"k2">>)
    /\ http["p1"].res = "UserExists"
    /\ USERS[<<"a">>] = Some(<<"k1">>)
    /\ USERS[<<"b">>] = Some(<<"k2">>)

(***************************************************************************)
(* More properties of the update protocol, checked under Spec.             *)
(***************************************************************************)
\* C23: a call without a base version that gets the write transaction merges
\* into the record stored then, whatever its version, and prepares version
\* current + 1; its commit stores that record; it never ends in a conflict.
C23_NoBaseNeverConflicts ==
    /\ [](\A p \in Procs : proc[p].base_version = None => ~Conflicted(p))
    /\ [][\A p \in Procs :
            proc[p].base_version = None =>
               /\ (proc[p].pc = "called" /\ proc'[p].pc # "called") =>
                     /\ proc'[p].pc = "commit"
                     /\ proc'[p].current = Some(Current(ANNOTATIONS, proc[p].key))
                     /\ proc'[p].new_doc[1].version = proc'[p].current[1].version + 1
                     /\ proc'[p].new_doc[1].annotations \subseteq
                           Range(proc[p].new_annotations) \cup proc'[p].current[1].annotations
               /\ (proc[p].pc = "commit" /\ proc'[p].pc # "commit") =>
                     /\ Current(ANNOTATIONS', proc[p].key) = proc[p].new_doc[1]
                     /\ Current(ANNOTATIONS, proc[p].key) = proc[p].current[1]
                     /\ proc'[p].res.kind = "ok"
                     /\ proc'[p].res.version = proc[p].current[1].version + 1]_vars

C23_Witness ==
    \E p \in Procs :
        /\ Succeeded(p)
        /\ proc[p].base_version = None
        /\ proc[p].current[1].version = 1
        /\ proc[p].res.version = 2
        /\ Stored(p).version = 2
        /\ proc[p].current[1].annotations # {}
        /\ Stored(p).annotations # proc[p].current[1].annotations

(***************************************************************************)
(* More properties of the merge, checked under SpecMerge.                  *)
(***************************************************************************)
\* C24: the record holds s at a triple; a successful update lists s's datetime
\* in `deleted` and submits c at that triple, c's datetime not in the stored
\* deleted list: afterwards the triple holds a submitted annotation and not s
\* (unless s is submitted again); it holds c when c is the only annotation the
\* request submits at the triple, also when c is older than s.
C24_DeleteThenInsertFresh ==
    \A p \in Procs : Succeeded(p) =>
        LET before == proc[p].current[1]
            after == Stored(p)
            req == proc[p].new_annotations
        IN \A s \in before.annotations : \A i \in DOMAIN req :
              (/\ TripleOf(req[i]) = TripleOf(s)
               /\ Contains(proc[p].new_deleted, s.datetime)
               /\ ~Tombstoned(before, req[i])) =>
                  LET there == AtTriple(after.annotations, TripleOf(s))
                  IN /\ Cardinality(there) = 1
                     /\ \A x \in there : \E j \in DOMAIN req : req[j] = x
                     /\ (\A j \in DOMAIN req : TripleOf(req[j]) = TripleOf(s) => req[j] = req[i])
                           => there = {req[i]}

C24_Witness ==
    \E p \in Procs :
        /\ Succeeded(p)
        /\ Len(proc[p].new_annotations) = 1
        /\ LET c == proc[p].new_annotations[1]
           IN /\ \E s \in proc[p].current[1].annotations :
                    /\ TripleOf(s) = TripleOf(c) /\ Later(s, c)
                    /\ s.datetime # c.datetime
                    /\ Contains(proc[p].new_deleted, s.datetime)
              /\ ~Tombstoned(proc[p].current[1], c)
              /\ ~Tombstoned(Stored(p), c)
              /\ AtTriple(Stored(p).annotations, TripleOf(c)) = {c}

\* C25: a successful update that submits one annotation c.  The stored
\* annotations whose datetime the request lists in `deleted` are removed, whatever
\* their update time; c is refused when its datetime is in the stored deleted
\* list, whatever its update time; otherwise c replaces the kept annotation s at
\* its triple exactly when RecencyOf(c) > RecencyOf(s), where the recency of an
\* annotation is its update time if it has one, also one smaller than the
\* creation time, and its creation time only if it has none.
RecencyOf(a) == IF a.datetime_updated = None THEN a.datetime ELSE a.datetime_updated[1]

C25_RecencyUsesUpdateTime ==
    \A p \in Procs :
        (Succeeded(p) /\ Len(proc[p].new_annotations) = 1) =>
            LET before == proc[p].current[1]
                after == Stored(p)
                c == proc[p].new_annotations[1]
                kept == {s \in before.annotations :
                            \A i \in DOMAIN proc[p].new_deleted :
                                proc[p].new_deleted[i] # s.datetime}
                rival == AtTriple(kept, TripleOf(c))
            IN after.annotations =
                  IF \E i \in DOMAIN before.deleted : before.deleted[i] = c.datetime
                  THEN kept
                  ELSE IF \E s \in rival : ~StrGt(RecencyOf(c), RecencyOf(s))
                       THEN kept
                       ELSE (kept \ rival) \cup {c}

C25_Witness ==
    \E p \in Procs :
        /\ Succeeded(p)
        /\ Len(proc[p].new_annotations) = 1
        /\ proc[p].new_deleted = <<>>
        /\ LET c == proc[p].new_annotations[1]
           IN /\ \E s \in proc[p].current[1].annotations :
                    /\ TripleOf(s) = TripleOf(c)
                    /\ s.datetime_updated # None
                    /\ StrGt(s.datetime, s.datetime_updated[1])
                    /\ s.datetime = c.datetime
                    /\ c.datetime_updated = None
                    /\ s \notin Stored(p).annotations
              /\ c \in Stored(p).annotations
              /\ \E i \in DOMAIN proc[p].current[1].deleted :
                    proc[p].current[1].deleted[i] = T10

(***************************************************************************)
(* Properties of concurrent updates, checked under Spec.                   *)
(***************************************************************************)
\* C26: the clock never goes backward (Tick only increments it), and the
\* updated_at of a stored record never decreases from one commit to the next.
\* (Violated: a call that took its timestamp first may commit second.)
C26_UpdatedAtNeverDecreases ==
    [][\A k \in DOMAIN ANNOTATIONS :
          Current(ANNOTATIONS', k).updated_at >= Current(ANNOTATIONS, k).updated_at]_vars

\* C27: a read returns the version that counts the commits made so far; a call
\* whose base version is the version its task's latest read returned ends in a
\* conflict only if more updates of the key have committed by then than had
\* committed at that read, so every such conflict comes with the success of
\* another call.
C27_NoSpuriousConflict ==
    [][\A p \in Procs :
          /\ (proc'[p].view # proc[p].view /\ proc'[p].view # None) =>
                proc'[p].view[1].doc.version = committed[proc'[p].view[1].key]
          /\ (/\ proc[p].pc = "called" /\ proc'[p].pc = "done"
              /\ proc'[p].res.kind = "conflict"
              /\ proc[p].view # None
              /\ proc[p].view[1].key = proc[p].key
              /\ proc[p].base_version = Some(proc[p].view[1].doc.version)) =>
                 committed[proc[p].key] > proc[p].view[1].doc.version]_vars

C27_Witness ==
    \E p \in Procs :
        /\ Conflicted(p)
        /\ proc[p].view # None
        /\ proc[p].view[1].key = proc[p].key
        /\ proc[p].view[1].doc.version = 1
        /\ proc[p].base_version = Some(1)
        /\ proc[p].current[1].version = 2
        /\ \E q \in Procs \ {p} : Succeeded(q) /\ proc[q].nth = 2

(***************************************************************************)
(* Properties of two calls in a row, checked under SpecTwice and SpecOrder.*)
(***************************************************************************)
\* q's call was made with p's request and found the record p's call stored.
Resubmitted(p, q) ==
    /\ Succeeded(p) /\ Succeeded(q)
    /\ proc[q].key = proc[p].key
    /\ proc[q].current = proc[p].new_doc
    /\ proc[q].new_annotations = proc[p].new_annotations
    /\ proc[q].new_deleted = proc[p].new_deleted
    /\ proc[p].base_version = None /\ proc[q].base_version = None

\* C28: a request without base version, none of whose annotations has its
\* datetime in the request's own deleted list, is applied and then applied
\* again: the second call stores the annotations and the deleted entries the
\* first one stored, with the next version.
C28_ResubmissionKeepsContent ==
    \A p, q \in Procs :
        (/\ Resubmitted(p, q)
         /\ \A i \in DOMAIN proc[p].new_annotations :
               ~Contains(proc[p].new_deleted, proc[p].new_annotations[i].datetime)) =>
            /\ proc[q].new_doc[1].annotations = proc[p].new_doc[1].annotations
            /\ Range(proc[q].new_doc[1].deleted) = Range(proc[p].new_doc[1].deleted)
            /\ proc[q].new_doc[1].version = proc[p].new_doc[1].version + 1
            /\ Stored(q) = proc[q].new_doc[1]

C28_Witness ==
    \E p, q \in Procs :
        /\ Resubmitted(p, q)
        /\ \A i \in DOMAIN proc[p].new_annotations :
              ~Contains(proc[p].new_deleted, proc[p].new_annotations[i].datetime)
        /\ Len(proc[p].new_annotations) = 2
        /\ proc[p].new_deleted # <<>>
        /\ proc[p].current[1].annotations # {}
        /\ proc[p].new_doc[1].annotations # proc[p].current[1].annotations
        /\ \E s \in proc[p].current[1].annotations : s \notin proc[p].new_doc[1].annotations
        /\ \E i \in DOMAIN proc[p].new_annotations :
              proc[p].new_annotations[i] \notin proc[p].new_doc[1].annotations
        /\ Stored(q).version = 3

\* q's call found the record p's call stored; neither had a base version.
InARow(p, q) ==
    /\ Succeeded(p) /\ Succeeded(q)
    /\ proc[q].key = proc[p].key
    /\ proc[q].current = proc[p].new_doc
    /\ proc[p].base_version = None /\ proc[q].base_version = None

\* No two of the annotations stored before, submitted first and submitted
\* second share a triple and a recency.
NoTies(S0, R1, R2) ==
    /\ \A s \in S0 : \A i \in DOMAIN R1 :
          TripleOf(s) = TripleOf(R1[i]) => RecencyOf(s) # RecencyOf(R1[i])
    /\ \A s \in S0 : \A i \in DOMAIN R2 :
          TripleOf(s) = TripleOf(R2[i]) => RecencyOf(s) # RecencyOf(R2[i])
    /\ \A i \in DOMAIN R1 : \A j \in DOMAIN R2 :
          TripleOf(R1[i]) = TripleOf(R2[j]) => RecencyOf(R1[i]) # RecencyOf(R2[j])
    /\ \A i, j \in DOMAIN R1 :
          (i # j /\ TripleOf(R1[i]) = TripleOf(R1[j])) => RecencyOf(R1[i]) # RecencyOf(R1[j])
    /\ \A i, j \in DOMAIN R2 :
          (i # j /\ TripleOf(R2[i]) = TripleOf(R2[j])) => RecencyOf(R2[i]) # RecencyOf(R2[j])

\* C29: R1 and then R2, both with empty deleted lists and no base version, are
\* applied to a record with an empty deleted list, and no two annotations at one
\* triple, of the record or of the requests, have the same recency: the record
\* then holds, for each triple, the one of them with the largest recency, and
\* it is the set that applying R2 and then R1 to the same record yields.
C29_MergeOrderIndependent ==
    \A p, q \in Procs :
        LET S0 == proc[p].current[1]
            R1 == proc[p].new_annotations
            R2 == proc[q].new_annotations
            final == proc[q].new_doc[1].annotations
            all == S0.annotations \cup Range(R1) \cup Range(R2)
        IN (/\ InARow(p, q)
            /\ S0.deleted = <<>> /\ proc[p].new_deleted = <<>> /\ proc[q].new_deleted = <<>>
            /\ NoTies(S0.annotations, R1, R2)) =>
               /\ Stored(q).annotations = final
               /\ final = {x \in all :
                             \A y \in AtTriple(all, TripleOf(x)) :
                                 y = x \/ StrGt(RecencyOf(x), RecencyOf(y))}
               /\ \A o1 \in Orders(S0.annotations) :
                     \A o2 \in Orders(merge_annotations(o1, R2, <<>>, <<>>)) :
                         merge_annotations(o2, R1, <<>>, <<>>) = final

C29_Witness ==
    \E p, q \in Procs :
        /\ InARow(p, q)
        /\ proc[p].current[1].deleted = <<>>
        /\ proc[p].new_deleted = <<>> /\ proc[q].new_deleted = <<>>
        /\ NoTies(proc[p].current[1].annotations, proc[p].new_annotations,
                  proc[q].new_annotations)
        /\ Len(proc[p].new_annotations) = 2 /\ Len(proc[q].new_annotations) = 1
        /\ \E s \in proc[p].current[1].annotations :
              LET a == proc[p].new_annotations[1]
                  b == proc[q].new_annotations[1]
              IN /\ TripleOf(s) = TripleOf(a) /\ TripleOf(a) = TripleOf(b)
                 /\ StrGt(RecencyOf(a), RecencyOf(b))
                 /\ StrGt(RecencyOf(b), RecencyOf(s))
                 /\ TripleOf(proc[p].new_annotations[2]) # TripleOf(a)
                 /\ Stored(q).annotations = {a, proc[p].new_annotations[2]}

====
